---- MODULE Spec2Model ----
(***************************************************************************)
(* A model of the HybridQA multi-agent pipeline:                           *)
(*   - the five table tools of agent/tools.py over the Table Store of      *)
(*     agent/utils.py (specification SpecTools);                           *)
(*   - the orchestration graph validator -> router -> workers of           *)
(*     agent/graph.py, agent/planner.py, agent/table_agent.py and          *)
(*     agent/analysis_agent.py (specification Spec).                       *)
(***************************************************************************)
EXTENDS Integers, Sequences, FiniteSets, TLC

VARIABLES
    tables,     \* Storage.tables resolved to the parsed tables: uid -> table
    call,       \* the tool invocation: the tool's name and its named parameters
    result,     \* what the invocation produced: a returned mapping or a raised exception
    messages,   \* State["messages"]
    next,       \* State["next"]
    active,     \* the nodes scheduled for the current step of the compiled graph
    input,      \* the message list the graph is invoked with
    ran,        \* the node executions so far, in order, each with where it handed control
    decision,   \* the raw `next` value of the router's last structured output
    exception,  \* the exception that aborted the graph run, or "none"
    agent_result,  \* result["messages"] of the last worker's inner agent run
    passages,   \* Storage.passages: passage key -> text
    table_retriever,  \* what Storage.table_retriever answers: query -> table uids
    wiki_retriever,   \* what Storage.wiki_retriever answers: query -> passage keys
    first,      \* the first tool call of the process and what it produced
    ncalls,     \* the number of tool calls made so far
    disk,       \* the paths that exist under ./data
    STORAGE,    \* the module global STORAGE: "None" or "Storage"
    inits       \* the runs of Storage.__init__ so far: what each found and did

toolVars  == <<tables, call, result>>
graphVars == <<messages, next, active, input, ran, decision, exception, agent_result>>
storeVars == <<passages, table_retriever, wiki_retriever, first, ncalls>>
cacheVars == <<disk, STORAGE, inits>>
vars      == <<tables, call, result, messages, next, active, input, ran, decision,
               exception, agent_result, passages, table_retriever, wiki_retriever, first, ncalls,
               disk, STORAGE, inits>>

----------------------------------------------------------------------------
(* Bounds of the model *)

MaxRows  == 2     \* rows per table
MaxConds == 2     \* entries of a conditions mapping
MaxInput == 2     \* messages of the graph's input
MaxMsgs  == 5     \* the router stops choosing workers at this many messages
MaxInner == 2     \* messages a worker's inner agent run produces
MaxCalls == 3     \* tool calls of one process
MaxInits == 2     \* processes started one after the other

----------------------------------------------------------------------------
(* Python helpers *)

\* Mutant of PyInRange: a list that takes no negative index.
PyInRange_nonnegative(seq, i) == 0 <= i /\ i < Len(seq)

\* seq[i] for a Python list: 0-based, negative indices count from the end.
PyInRange(seq, i) == -Len(seq) <= i /\ i < Len(seq)
PyIndex(seq, i) == IF i >= 0 THEN seq[i + 1] ELSE seq[Len(seq) + i + 1]

Returned(v) == [raised |-> FALSE, val |-> v]
Raised(exc, msg) == [raised |-> TRUE, exc |-> exc, msg |-> msg]

Range(seq) == {seq[i] : i \in 1..Len(seq)}

----------------------------------------------------------------------------
(* The Table Store *)

KnownUIDs   == {"T1"}
UnknownUIDs == {"T9"}
UIDs        == KnownUIDs \cup UnknownUIDs

CellValues  == {"NYC", "LA"}
NoLinks     == <<>>

\* The headers of the modelled tables: distinct names, one name, a repeated name.
Headers == {<<"Name", "City">>, <<"City">>, <<"Name", "Name">>}
ColumnNames == {"Name", "City", "Country"}

RECURSIVE SeqsUpTo(_, _)
SeqsUpTo(S, n) ==
    IF n = 0 THEN {<<>>}
    ELSE LET shorter == SeqsUpTo(S, n - 1)
         IN  shorter \cup {Append(s, x) : s \in {t \in shorter : Len(t) = n - 1}, x \in S}

SeqsOfLen(S, n) == {s \in SeqsUpTo(S, n) : Len(s) = n}

\* A parsed table file: header entries and cells are [text, links] pairs.
TablesOver(h) ==
    {[title  |-> "title",
      header |-> [i \in 1..Len(h) |-> <<h[i], NoLinks>>],
      data   |-> [r \in 1..Len(d) |-> [c \in 1..Len(h) |-> <<d[r][c], NoLinks>>]]] :
        d \in SeqsUpTo(SeqsOfLen(CellValues, Len(h)), MaxRows)}

\* The two-row table the graph specification keeps in the store.
ScenarioTable ==
    [title  |-> "title",
     header |-> <<<<"Name", NoLinks>>, <<"City", NoLinks>>>>,
     data   |-> << <<<<"LA", NoLinks>>, <<"NYC", NoLinks>>>>,
                   <<<<"NYC", NoLinks>>, <<"LA", NoLinks>>>> >>]

AllTables == UNION {TablesOver(h) : h \in Headers}

\* Mutant of get_table: a plain dictionary lookup, whose miss is a KeyError.
get_table_plain_lookup(table_uid) ==
    IF table_uid \notin DOMAIN tables
    THEN Raised("KeyError", table_uid)
    ELSE Returned(tables[table_uid])

get_table(table_uid) ==
    IF table_uid \notin DOMAIN tables
    THEN Raised("ValueError", "Table with uid: '" \o table_uid \o "' not found")
    ELSE Returned(tables[table_uid])

----------------------------------------------------------------------------
(* The Passage Store, the retrievers and the cache on disk *)

Queries     == {"q1", "q2"}
PassageKeys == {"/wiki/A", "/wiki/B"}

ScenarioPassages == [k \in PassageKeys |-> "text of " \o k]

\* Storage.__init__: the paths it tests and writes
DataDir       == "./data"
TableVSDir    == "./data/table_vector_store"
WikiVSDir     == "./data/wiki_vector_store"
TablesPkl     == "./data/tables.pkl"
PassagesPkl   == "./data/passages.pkl"
HybridQADir   == "./data/hybrid_qa"

Artifacts == {TableVSDir, WikiVSDir, TablesPkl, PassagesPkl}
AllPaths  == {DataDir, HybridQADir} \cup Artifacts

\* What can be on disk: a path under ./data exists only if ./data does.
Disks == {d \in SUBSET AllPaths : d # {} => DataDir \in d}

----------------------------------------------------------------------------
(* The table tools *)

header_names(table) == [i \in 1..Len(table.header) |-> table.header[i][1]]

\* Mutant of _get_column_index: the scan keeps the last header entry of that name.
_get_column_index_last(table, column_name) ==
    LET names == header_names(table)
        hits  == {i \in 1..Len(names) : names[i] = column_name}
    IN  IF hits = {}
        THEN Raised("ValueError", "Column '" \o column_name \o "' not found")
        ELSE Returned((CHOOSE i \in hits : \A j \in hits : j <= i) - 1)

\* The zero-based index of the first header entry named column_name.
_get_column_index(table, column_name) ==
    LET names == header_names(table)
        hits  == {i \in 1..Len(names) : names[i] = column_name}
    IN  IF hits = {}
        THEN Raised("ValueError", "Column '" \o column_name \o "' not found")
        ELSE Returned((CHOOSE i \in hits : \A j \in hits : i <= j) - 1)

\* Mutant of except_ValueError: the failure payload echoes no input.
except_ValueError_no_echo(body, failure) ==
    IF body.raised /\ body.exc = "ValueError"
    THEN Returned(("ok" :> FALSE) @@ ("error" :> body.msg))
    ELSE body

\* try: ... except ValueError as e: return <failure payload with str(e)>.
\* Any other exception leaves the tool.
except_ValueError(body, failure) ==
    IF body.raised /\ body.exc = "ValueError"
    THEN Returned(("ok" :> FALSE) @@ ("error" :> body.msg) @@ failure)
    ELSE body

get_table_metadata(table_uid) ==
    LET t == get_table(table_uid)
        body == IF t.raised THEN t
                ELSE Returned(("ok" :> TRUE) @@ ("table title" :> t.val.title)
                              @@ ("columns" :> header_names(t.val))
                              @@ ("num rows" :> Len(t.val.data)))
    IN  except_ValueError(body, "table_uid" :> table_uid)

\* Mutant of get_column: the cells are read from the first column, whatever the name.
get_column_first_column(table_uid, column_name) ==
    LET t  == get_table(table_uid)
        ci == _get_column_index(t.val, column_name)
        body == IF t.raised THEN t
                ELSE IF ci.raised THEN ci
                ELSE Returned(("ok" :> TRUE) @@
                              ("cells" :> [r \in 1..Len(t.val.data) |->
                                              PyIndex(t.val.data[r], 0)[1]]))
    IN  except_ValueError(body, ("table_uid" :> table_uid) @@ ("column_name" :> column_name))

get_column(table_uid, column_name) ==
    LET t  == get_table(table_uid)
        ci == _get_column_index(t.val, column_name)
        body == IF t.raised THEN t
                ELSE IF ci.raised THEN ci
                ELSE Returned(("ok" :> TRUE) @@
                              ("cells" :> [r \in 1..Len(t.val.data) |->
                                              PyIndex(t.val.data[r], ci.val)[1]]))
    IN  except_ValueError(body, ("table_uid" :> table_uid) @@ ("column_name" :> column_name))

get_row_by_index(table_uid, row_index) ==
    LET t == get_table(table_uid)
        body == IF t.raised THEN t
                ELSE IF ~PyInRange(t.val.data, row_index)
                THEN Raised("IndexError", "list index out of range")
                ELSE LET row == PyIndex(t.val.data, row_index)
                     IN  Returned(("ok" :> TRUE) @@
                                  ("row" :> [c \in 1..Len(row) |-> row[c][1]]))
    IN  except_ValueError(body, ("table_uid" :> table_uid) @@ ("row_index" :> row_index))

get_cell(table_uid, row_index, column_name) ==
    LET t  == get_table(table_uid)
        ci == _get_column_index(t.val, column_name)
        body == IF t.raised THEN t
                ELSE IF ci.raised THEN ci
                ELSE IF ~PyInRange(t.val.data, row_index)
                THEN Raised("IndexError", "list index out of range")
                ELSE Returned(("ok" :> TRUE) @@
                              ("cell" :> PyIndex(PyIndex(t.val.data, row_index), ci.val)[1]))
    IN  except_ValueError(body, ("table_uid" :> table_uid) @@ ("column_name" :> column_name))

\* The inner loop of find_rows_by_value over conditions.items(), from entry k on,
\* for one row: a mismatch breaks, a match appends the row index.
RECURSIVE scan_conditions(_, _, _, _, _, _)
scan_conditions(table, row, row_index, conditions, k, row_indices) ==
    IF k > Len(conditions) THEN Returned(row_indices)
    ELSE LET column_name == conditions[k][1]
             value       == conditions[k][2]
             ci          == _get_column_index(table, column_name)
         IN  IF ci.raised THEN ci
             ELSE IF PyIndex(row, ci.val)[1] # value THEN Returned(row_indices)
             ELSE scan_conditions(table, row, row_index, conditions, k + 1,
                                  Append(row_indices, row_index))

\* Mutant of scan_rows: the row indices are counted from 1.
RECURSIVE scan_rows_one_based(_, _, _, _)
scan_rows_one_based(table, conditions, r, row_indices) ==
    IF r > Len(table.data) THEN Returned(row_indices)
    ELSE LET inner == scan_conditions(table, table.data[r], r, conditions, 1,
                                      row_indices)
         IN  IF inner.raised THEN inner
             ELSE scan_rows_one_based(table, conditions, r + 1, inner.val)

\* The outer loop of find_rows_by_value over enumerate(table["data"]), from row r on.
RECURSIVE scan_rows(_, _, _, _)
scan_rows(table, conditions, r, row_indices) ==
    IF r > Len(table.data) THEN Returned(row_indices)
    ELSE LET inner == scan_conditions(table, table.data[r], r - 1, conditions, 1,
                                      row_indices)
         IN  IF inner.raised THEN inner
             ELSE scan_rows(table, conditions, r + 1, inner.val)

find_rows_by_value(table_uid, conditions) ==
    LET t == get_table(table_uid)
        found == scan_rows(t.val, conditions, 1, <<>>)
        body == IF t.raised THEN t
                ELSE IF found.raised THEN found
                ELSE Returned(("ok" :> TRUE) @@ ("row indices" :> found.val))
    IN  except_ValueError(body, ("table_uid" :> table_uid) @@ ("conditions" :> conditions))

----------------------------------------------------------------------------
(* Tool invocations *)

\* A conditions dict in iteration order: (column name, value) entries, keys distinct.
ConditionMappings ==
    {c \in SeqsUpTo(ColumnNames \X CellValues, MaxConds) :
        \A i, j \in 1..Len(c) : i # j => c[i][1] # c[j][1]}

RowIndexes == (-(MaxRows + 1))..MaxRows

Calls ==
    [tool : {"get_table_metadata"}, table_uid : UIDs]
    \cup [tool : {"get_column"}, table_uid : UIDs, column_name : ColumnNames]
    \cup [tool : {"get_row_by_index"}, table_uid : UIDs, row_index : RowIndexes]
    \cup [tool : {"get_cell"}, table_uid : UIDs, row_index : RowIndexes,
          column_name : ColumnNames]
    \cup [tool : {"find_rows_by_value"}, table_uid : UIDs, conditions : ConditionMappings]

NoResult == [pending |-> TRUE]
NoCall   == [tool |-> "none"]

InitTools ==
    /\ tables \in [KnownUIDs -> AllTables]
    /\ call \in Calls
    /\ result = NoResult
    /\ messages = <<>>
    /\ next = "unset"
    /\ active = {}
    /\ input = <<>>
    /\ ran = <<>>
    /\ decision = "none"
    /\ exception = "none"
    /\ agent_result = <<>>
    /\ passages = ScenarioPassages
    /\ table_retriever = [q \in Queries |-> <<>>]
    /\ wiki_retriever = [q \in Queries |-> <<>>]
    /\ first = NoCall
    /\ ncalls = 0
    /\ disk = AllPaths
    /\ STORAGE = "Storage"
    /\ inits = <<>>

GetTableMetadata ==
    /\ call.tool = "get_table_metadata" /\ result = NoResult
    /\ result' = get_table_metadata(call.table_uid)
    /\ UNCHANGED <<tables, call>>

GetColumn ==
    /\ call.tool = "get_column" /\ result = NoResult
    /\ result' = get_column(call.table_uid, call.column_name)
    /\ UNCHANGED <<tables, call>>

GetRowByIndex ==
    /\ call.tool = "get_row_by_index" /\ result = NoResult
    /\ result' = get_row_by_index(call.table_uid, call.row_index)
    /\ UNCHANGED <<tables, call>>

GetCell ==
    /\ call.tool = "get_cell" /\ result = NoResult
    /\ result' = get_cell(call.table_uid, call.row_index, call.column_name)
    /\ UNCHANGED <<tables, call>>

FindRowsByValue ==
    /\ call.tool = "find_rows_by_value" /\ result = NoResult
    /\ result' = find_rows_by_value(call.table_uid, call.conditions)
    /\ UNCHANGED <<tables, call>>

NextTools ==
    \/ GetTableMetadata /\ UNCHANGED <<graphVars, storeVars, cacheVars>>
    \/ GetColumn /\ UNCHANGED <<graphVars, storeVars, cacheVars>>
    \/ GetRowByIndex /\ UNCHANGED <<graphVars, storeVars, cacheVars>>
    \/ GetCell /\ UNCHANGED <<graphVars, storeVars, cacheVars>>
    \/ FindRowsByValue /\ UNCHANGED <<graphVars, storeVars, cacheVars>>

SpecTools == InitTools /\ [][NextTools]_vars

----------------------------------------------------------------------------
(* The conversation state and its reducer *)

START == "__start__"
END   == "__end__"

Members == <<"table_agent", "analysis_agent">>
Workers == Range(Members)

NoId == 0    \* a message constructed without an id

Message(type, name, content) == [id |-> NoId, type |-> type, name |-> name,
                                 content |-> content]
HumanMessage(content, name) == Message("human", name, content)
AIMessage(content)          == Message("ai", "none", content)
SystemMessage(content)      == Message("system", "none", content)

UserContents == {"question", "follow-up"}
Inputs == SeqsUpTo({HumanMessage(c, "none") : c \in UserContents}, MaxInput)

SetMax(S) == IF S = {} THEN 0 ELSE CHOOSE x \in S : \A y \in S : y <= x

\* A message of State["messages"] given a fresh id when it has none.
with_id(m, used) == IF m.id = NoId THEN [m EXCEPT !.id = SetMax(used) + 1] ELSE m

\* The reducer of State["messages"] (MessagesState): a message of `right` whose id is
\* already in `left` replaces that message in place, any other is appended.
\* Mutant of add_messages: the channel has no reducer, an update overwrites it.
add_messages_overwrite(left, right) == right

\* Mutant of add_messages: every message of an update is appended, whatever its id.
add_messages_always_append(left, right) == left \o right

RECURSIVE add_messages(_, _)
add_messages(left, right) ==
    IF right = <<>> THEN left
    ELSE LET ids  == {left[i].id : i \in 1..Len(left)}
             m    == with_id(Head(right), ids)
             hits == {i \in 1..Len(left) : left[i].id = m.id}
             merged == IF hits = {} THEN Append(left, m)
                       ELSE [i \in 1..Len(left) |-> IF i \in hits THEN m ELSE left[i]]
         IN  add_messages(merged, Tail(right))

\* The nodes a transfer to `goto` schedules: END schedules none.
scheduled(goto) == {goto} \ {END}

Executed(node, goto) == [node |-> node, goto |-> goto]

----------------------------------------------------------------------------
(* utils.py: the validator and the conditional edge *)

\* Mutant of validate_input: the empty list is not rejected.
validate_input_no_guard(input_state) ==
    [messages |-> input_state.messages, next |-> "router"]

validate_input(input_state) ==
    IF input_state.messages = <<>>
    THEN [messages |-> <<AIMessage("Please enter a question")>>, next |-> "end"]
    ELSE [messages |-> input_state.messages, next |-> "router"]

route(state) == state.next

\* Mutant of path_map: every key leads to the end.
path_map_all_end(key) == END

\* graph.py: the path map of the validator's conditional edge
path_map(key) == IF key = "router" THEN "router" ELSE END

\* add_edge(START, "validator"): the input is written to the state, the validator is next
Start ==
    /\ active = {START}
    /\ messages' = add_messages(<<>>, input)
    /\ active' = {"validator"}
    /\ UNCHANGED <<next, input, ran, decision, exception, agent_result>>

Validator ==
    /\ "validator" \in active
    /\ LET update == validate_input([messages |-> messages])
           goto   == path_map(route([messages |-> add_messages(messages, update.messages),
                                     next |-> update.next]))
       IN  /\ messages' = add_messages(messages, update.messages)
           /\ next' = update.next
           /\ active' = (active \ {"validator"}) \cup scheduled(goto)
           /\ ran' = Append(ran, Executed("validator", goto))
    /\ UNCHANGED <<input, decision, exception, agent_result>>

----------------------------------------------------------------------------
(* planner.py: the router *)

options == <<"FINISH">> \o Members

\* What the decision procedure may put in the `next` field: a str, not only an option.
RouterOutputs == Range(options) \cup {"search_agent"}

\* Mutant of validate_next: the check against options is missing.
validate_next_unchecked(v) == Returned(v)

\* Router.validate_next
validate_next(v) ==
    IF v \notin Range(options)
    THEN Raised("ValueError", "next must be one of options")
    ELSE Returned(v)

\* planner_node, given the validated response: where to go and the state update
planner_goto(response_next) == IF response_next = "FINISH" THEN END ELSE response_next

\* Mutant of planner_update: `next` is not updated with the decision.
planner_update_stale(goto) == [next |-> "router"]

planner_update(goto) == [next |-> goto]

\* Mutant of Router: a hop counter forces the end after the first round.
Router_with_hop_cap ==
    /\ "router" \in active
    /\ \E v \in RouterOutputs :
        /\ v \in Workers => Len(messages) < MaxMsgs
        /\ decision' = v
        /\ LET response == validate_next(v)
           IN  IF response.raised
               THEN /\ exception' = "ValidationError"
                    /\ active' = {}
                    /\ ran' = Append(ran, Executed("router", "raise"))
                    /\ UNCHANGED next
               ELSE LET goto == IF Len(ran) >= 3 THEN END ELSE planner_goto(response.val)
                    IN  /\ next' = planner_update(goto).next
                        /\ active' = (active \ {"router"}) \cup scheduled(goto)
                        /\ ran' = Append(ran, Executed("router", goto))
                        /\ UNCHANGED exception
    /\ UNCHANGED <<messages, input, agent_result>>

Router ==
    /\ "router" \in active
    /\ \E v \in RouterOutputs :
        /\ v \in Workers => Len(messages) < MaxMsgs
        /\ decision' = v
        /\ LET response == validate_next(v)
           IN  IF response.raised
               THEN /\ exception' = "ValidationError"
                    /\ active' = {}
                    /\ ran' = Append(ran, Executed("router", "raise"))
                    /\ UNCHANGED next
               ELSE LET goto == planner_goto(response.val)
                    IN  /\ next' = planner_update(goto).next
                        /\ active' = (active \ {"router"}) \cup scheduled(goto)
                        /\ ran' = Append(ran, Executed("router", goto))
                        /\ UNCHANGED exception
    /\ UNCHANGED <<messages, input, agent_result>>

----------------------------------------------------------------------------
(* table_agent.py and analysis_agent.py: the workers *)

TABLE_AGENT_SYSTEM_PROMPT    == "Table agent: extract data from tables only."
ANALYSIS_AGENT_SYSTEM_PROMPT == "Analysis agent: analyze table_agent data."

TableAgentContents    == {"tool result", "extraction"}
AnalysisAgentContents == {"need extraction", "final answer"}

\* What an inner agent run adds to the messages it is given: at least one message.
InnerRuns(contents) ==
    {p \in SeqsUpTo({AIMessage(c) : c \in contents}, MaxInner) : p # <<>>}

\* agent.invoke(state_with_system): the messages given, then the run's own
agent_invoke(state_with_system, produced) ==
    [messages |-> state_with_system.messages \o produced]

Last(seq) == seq[Len(seq)]

\* Mutant of table_agent_node: the worker ends the graph itself.
table_agent_node_ends(state, produced) ==
    [update |-> [messages |-> <<HumanMessage(produced[Len(produced)].content, "table_agent")>>],
     goto   |-> END]

\* Mutant of table_agent_node: the first message of the run is reported, not the last.
table_agent_node_first_message(state, produced) ==
    LET messages_with_system == <<SystemMessage(TABLE_AGENT_SYSTEM_PROMPT)>> \o state.messages
        res == agent_invoke([messages |-> messages_with_system], produced)
    IN  [update |-> [messages |-> <<HumanMessage(res.messages[1].content, "table_agent")>>],
         goto   |-> "router"]

\* table_agent_node: the Command it returns
table_agent_node(state, produced) ==
    LET messages_with_system == <<SystemMessage(TABLE_AGENT_SYSTEM_PROMPT)>> \o state.messages
        res == agent_invoke([messages |-> messages_with_system], produced)
    IN  [update |-> [messages |-> <<HumanMessage(Last(res.messages).content, "table_agent")>>],
         goto   |-> "router"]

\* analysis_node: the Command it returns
analysis_node(state, produced) ==
    LET messages_with_system == <<SystemMessage(ANALYSIS_AGENT_SYSTEM_PROMPT)>> \o state.messages
        res == agent_invoke([messages |-> messages_with_system], produced)
    IN  [update |-> [messages |-> <<HumanMessage(Last(res.messages).content, "analysis_agent")>>],
         goto   |-> "router"]

TableAgent ==
    /\ "table_agent" \in active
    /\ \E produced \in InnerRuns(TableAgentContents) :
        LET command == table_agent_node([messages |-> messages, next |-> next], produced)
        IN  /\ messages' = add_messages(messages, command.update.messages)
            /\ active' = (active \ {"table_agent"}) \cup scheduled(command.goto)
            /\ ran' = Append(ran, Executed("table_agent", command.goto))
            /\ agent_result' = agent_invoke(
                   [messages |-> <<SystemMessage(TABLE_AGENT_SYSTEM_PROMPT)>> \o messages],
                   produced).messages
    /\ UNCHANGED <<next, input, decision, exception>>

AnalysisAgent ==
    /\ "analysis_agent" \in active
    /\ \E produced \in InnerRuns(AnalysisAgentContents) :
        LET command == analysis_node([messages |-> messages, next |-> next], produced)
        IN  /\ messages' = add_messages(messages, command.update.messages)
            /\ active' = (active \ {"analysis_agent"}) \cup scheduled(command.goto)
            /\ ran' = Append(ran, Executed("analysis_agent", command.goto))
            /\ agent_result' = agent_invoke(
                   [messages |-> <<SystemMessage(ANALYSIS_AGENT_SYSTEM_PROMPT)>> \o messages],
                   produced).messages
    /\ UNCHANGED <<next, input, decision, exception>>

----------------------------------------------------------------------------
(* The graph's specification *)

Init ==
    /\ input \in Inputs
    /\ messages = <<>>
    /\ next = "unset"
    /\ active = {START}
    /\ ran = <<>>
    /\ decision = "none"
    /\ exception = "none"
    /\ agent_result = <<>>
    /\ tables = [u \in KnownUIDs |-> ScenarioTable]
    /\ call = NoCall
    /\ result = NoResult
    /\ passages = ScenarioPassages
    /\ table_retriever = [q \in Queries |-> <<>>]
    /\ wiki_retriever = [q \in Queries |-> <<>>]
    /\ first = NoCall
    /\ ncalls = 0
    /\ disk = AllPaths
    /\ STORAGE = "Storage"
    /\ inits = <<>>

Next ==
    \/ Start /\ UNCHANGED <<toolVars, storeVars, cacheVars>>
    \/ Validator /\ UNCHANGED <<toolVars, storeVars, cacheVars>>
    \/ Router /\ UNCHANGED <<toolVars, storeVars, cacheVars>>
    \/ TableAgent /\ UNCHANGED <<toolVars, storeVars, cacheVars>>
    \/ AnalysisAgent /\ UNCHANGED <<toolVars, storeVars, cacheVars>>

Spec == Init /\ [][Next]_vars

----------------------------------------------------------------------------
(* The retrieval tools, and the seven tools called one after the other *)

\* Storage.retrieve_tables: the page_content of the retrieved documents, in order.
Storage_retrieve_tables(query) == Returned(table_retriever[query])

\* Mutant of Storage_retrieve_wiki_passages: the texts are popped from the mapping.
Storage_retrieve_wiki_passages_pop(query) ==
    LET docs == wiki_retriever[query]
    IN  [result   |-> IF \E i \in 1..Len(docs) : docs[i] \notin DOMAIN passages
                      THEN Raised("KeyError", "missing passage")
                      ELSE Returned([i \in 1..Len(docs) |-> passages[docs[i]]]),
         passages |-> [k \in (DOMAIN passages) \ Range(docs) |-> passages[k]]]

\* Storage.retrieve_wiki_passages: what it returns (or raises: self.passages[key]
\* is a dict lookup) and the Passage Store mapping it leaves behind.
Storage_retrieve_wiki_passages(query) ==
    LET docs == wiki_retriever[query]
    IN  [result   |-> IF \E i \in 1..Len(docs) : docs[i] \notin DOMAIN passages
                      THEN Raised("KeyError", "missing passage")
                      ELSE Returned([i \in 1..Len(docs) |-> passages[docs[i]]]),
         passages |-> passages]

\* The two retrieval tools have no try/except: whatever is raised leaves the tool.
retrieve_tables(query) ==
    LET r == Storage_retrieve_tables(query)
    IN  IF r.raised THEN r
        ELSE Returned(("ok" :> TRUE) @@ ("table uids" :> r.val))

retrieve_wiki_passages(query) ==
    LET r == Storage_retrieve_wiki_passages(query).result
    IN  IF r.raised THEN r
        ELSE Returned(("ok" :> TRUE) @@ ("passages texts" :> r.val))

\* The arguments the tools are called with in a sequence of calls.
SeqColumns    == {"City", "Country"}
SeqRowIndexes == {0, MaxRows}
SeqConditions == {c \in ConditionMappings :
                     Len(c) <= 1 /\ \A i \in 1..Len(c) : c[i][2] = "LA"}

TableAnswers == {<<>>, <<"T1">>}
WikiAnswers  == {<<"/wiki/A">>, <<"/wiki/B", "/wiki/A">>}

\* One tool call of the process: the call, what it produced, and the memory of
\* the first call and of whether a different call has followed it.
Invoke(c, r) ==
    /\ ncalls < MaxCalls
    /\ call' = c
    /\ result' = r
    /\ ncalls' = ncalls + 1
    /\ first' = IF ncalls = 0
                THEN [call |-> c, result |-> r, between |-> FALSE]
                ELSE [first EXCEPT !.between = @ \/ c # first.call]

InitCalls ==
    /\ tables = [u \in KnownUIDs |-> ScenarioTable]
    /\ passages = ScenarioPassages
    /\ table_retriever \in [Queries -> TableAnswers]
    /\ wiki_retriever \in [Queries -> WikiAnswers]
    /\ call = NoCall
    /\ result = NoResult
    /\ first = NoCall
    /\ ncalls = 0
    /\ messages = <<>>
    /\ next = "unset"
    /\ active = {}
    /\ input = <<>>
    /\ ran = <<>>
    /\ decision = "none"
    /\ exception = "none"
    /\ agent_result = <<>>
    /\ disk = AllPaths
    /\ STORAGE = "Storage"
    /\ inits = <<>>

CallGetTableMetadata ==
    /\ \E u \in UIDs :
          Invoke([tool |-> "get_table_metadata", table_uid |-> u],
                 get_table_metadata(u))
    /\ UNCHANGED <<tables, passages, table_retriever, wiki_retriever>>

CallGetColumn ==
    /\ \E u \in UIDs, cn \in SeqColumns :
          Invoke([tool |-> "get_column", table_uid |-> u, column_name |-> cn],
                 get_column(u, cn))
    /\ UNCHANGED <<tables, passages, table_retriever, wiki_retriever>>

CallGetRowByIndex ==
    /\ \E u \in UIDs, ri \in SeqRowIndexes :
          Invoke([tool |-> "get_row_by_index", table_uid |-> u, row_index |-> ri],
                 get_row_by_index(u, ri))
    /\ UNCHANGED <<tables, passages, table_retriever, wiki_retriever>>

CallGetCell ==
    /\ \E u \in UIDs, ri \in SeqRowIndexes, cn \in SeqColumns :
          Invoke([tool |-> "get_cell", table_uid |-> u, row_index |-> ri,
                  column_name |-> cn],
                 get_cell(u, ri, cn))
    /\ UNCHANGED <<tables, passages, table_retriever, wiki_retriever>>

CallFindRowsByValue ==
    /\ \E u \in UIDs, cs \in SeqConditions :
          Invoke([tool |-> "find_rows_by_value", table_uid |-> u, conditions |-> cs],
                 find_rows_by_value(u, cs))
    /\ UNCHANGED <<tables, passages, table_retriever, wiki_retriever>>

CallRetrieveTables ==
    /\ \E q \in Queries :
          Invoke([tool |-> "retrieve_tables", query |-> q], retrieve_tables(q))
    /\ UNCHANGED <<tables, passages, table_retriever, wiki_retriever>>

CallRetrieveWikiPassages ==
    /\ \E q \in Queries :
          /\ Invoke([tool |-> "retrieve_wiki_passages", query |-> q],
                    retrieve_wiki_passages(q))
          /\ passages' = Storage_retrieve_wiki_passages(q).passages
    /\ UNCHANGED <<tables, table_retriever, wiki_retriever>>

NextCalls ==
    \/ CallGetTableMetadata /\ UNCHANGED <<graphVars, cacheVars>>
    \/ CallGetColumn /\ UNCHANGED <<graphVars, cacheVars>>
    \/ CallGetRowByIndex /\ UNCHANGED <<graphVars, cacheVars>>
    \/ CallGetCell /\ UNCHANGED <<graphVars, cacheVars>>
    \/ CallFindRowsByValue /\ UNCHANGED <<graphVars, cacheVars>>
    \/ CallRetrieveTables /\ UNCHANGED <<graphVars, cacheVars>>
    \/ CallRetrieveWikiPassages /\ UNCHANGED <<graphVars, cacheVars>>

SpecCalls == InitCalls /\ [][NextCalls]_vars

----------------------------------------------------------------------------
(* utils.py: Storage.__init__ over the cache on disk, one process after another *)

\* Where a run of Storage.__init__ can raise: the clone and the two embedding
\* builds go over the network, the load builds embedding clients.
FailurePoints == {"never", "load", "clone", "_create_table_vectorstore",
                  "_create_wiki_vectorstore"}

_create_table_vectorstore(d) ==
    [disk    |-> d \cup {DataDir, TablesPkl, TableVSDir},
     written |-> {TablesPkl, TableVSDir}]

\* Mutant of _create_wiki_vectorstore: the passage mapping is not pickled.
_create_wiki_vectorstore_no_pickle(d) ==
    [disk    |-> d \cup {DataDir, WikiVSDir},
     written |-> {WikiVSDir}]

_create_wiki_vectorstore(d) ==
    [disk    |-> d \cup {DataDir, PassagesPkl, WikiVSDir},
     written |-> {PassagesPkl, WikiVSDir}]

\* One run of Storage.__init__ on disk d that raises at `fails` (if it gets there):
\* the branch taken, whether the raw data was cloned, the artifacts written,
\* whether the constructor returned, and the disk it leaves.
Storage__init__(d, fails) ==
    IF DataDir \in d /\ TableVSDir \in d /\ WikiVSDir \in d
       /\ TablesPkl \in d /\ PassagesPkl \in d
    THEN [path |-> "load", cloned |-> FALSE, written |-> {},
          ok |-> fails # "load", disk |-> d]
    ELSE LET clone == HybridQADir \notin d
             d1    == IF clone THEN d \cup {DataDir, HybridQADir} ELSE d
             t     == _create_table_vectorstore(d1)
             w     == _create_wiki_vectorstore(t.disk)
         IN  IF clone /\ fails = "clone"
             THEN [path |-> "rebuild", cloned |-> FALSE, written |-> {},
                   ok |-> FALSE, disk |-> d]
             ELSE IF fails = "_create_table_vectorstore"
             THEN [path |-> "rebuild", cloned |-> clone, written |-> {},
                   ok |-> FALSE, disk |-> d1]
             ELSE IF fails = "_create_wiki_vectorstore"
             THEN [path |-> "rebuild", cloned |-> clone, written |-> t.written,
                   ok |-> FALSE, disk |-> t.disk]
             ELSE [path |-> "rebuild", cloned |-> clone,
                   written |-> t.written \cup w.written,
                   ok |-> TRUE, disk |-> w.disk]

InitStorage ==
    /\ disk \in Disks
    /\ STORAGE = "None"
    /\ inits = <<>>
    /\ tables = [u \in KnownUIDs |-> ScenarioTable]
    /\ passages = ScenarioPassages
    /\ table_retriever = [q \in Queries |-> <<>>]
    /\ wiki_retriever = [q \in Queries |-> <<>>]
    /\ call = NoCall
    /\ result = NoResult
    /\ first = NoCall
    /\ ncalls = 0
    /\ messages = <<>>
    /\ next = "unset"
    /\ active = {}
    /\ input = <<>>
    /\ ran = <<>>
    /\ decision = "none"
    /\ exception = "none"
    /\ agent_result = <<>>

\* get_storage() in a process whose STORAGE is still None: Storage() runs, and
\* STORAGE is assigned only if the constructor returns.
GetStorage ==
    /\ STORAGE = "None"
    /\ Len(inits) < MaxInits
    /\ \E fails \in FailurePoints :
          LET s == Storage__init__(disk, fails)
          IN  /\ disk' = s.disk
              /\ STORAGE' = IF s.ok THEN "Storage" ELSE "None"
              /\ inits' = Append(inits, [found |-> disk, path |-> s.path,
                                         cloned |-> s.cloned, written |-> s.written,
                                         ok |-> s.ok])

\* The process ends and the next one imports the module: STORAGE = None.
NewProcess ==
    /\ STORAGE = "Storage"
    /\ Len(inits) < MaxInits
    /\ STORAGE' = "None"
    /\ UNCHANGED <<disk, inits>>

NextStorage ==
    \/ GetStorage /\ UNCHANGED <<toolVars, graphVars, storeVars>>
    \/ NewProcess /\ UNCHANGED <<toolVars, graphVars, storeVars>>

SpecStorage == InitStorage /\ [][NextStorage]_vars

----------------------------------------------------------------------------
(* Properties of the table tools, checked under SpecTools *)

Done(tool) == result # NoResult /\ call.tool = tool
KnownTable == call.table_uid \in DOMAIN tables
TheTable == tables[call.table_uid]
HeaderNameSet(table) == {table.header[i][1] : i \in 1..Len(table.header)}
NumRows(table) == Len(table.data)

\* The cell string of row i (0-based) in the first column of the header named c.
CellOf(table, i, c) ==
    LET pos == CHOOSE p \in 1..Len(table.header) :
                   /\ table.header[p][1] = c
                   /\ \A q \in 1..(p - 1) : table.header[q][1] # c
    IN  table.data[i + 1][pos][1]

RowSatisfiesAll(table, i, conditions) ==
    \A k \in 1..Len(conditions) : CellOf(table, i, conditions[k][1]) = conditions[k][2]

ConditionKeys(conditions) == {conditions[k][1] : k \in 1..Len(conditions)}

ReturnedOk == ~result.raised /\ result.val["ok"] = TRUE
ReturnedFailure == ~result.raised /\ result.val["ok"] = FALSE

\* C1: for a known table and conditions whose columns are all in the header,
\* find_rows_by_value returns ok=true and a row index is in 'row indices' if and only
\* if that row satisfies every condition.
C1_MatchesEveryCondition ==
    (Done("find_rows_by_value") /\ KnownTable
        /\ ConditionKeys(call.conditions) \subseteq HeaderNameSet(TheTable))
    => /\ ReturnedOk
       /\ \A i \in 0..(NumRows(TheTable) - 1) :
            (i \in Range(result.val["row indices"]))
                <=> RowSatisfiesAll(TheTable, i, call.conditions)

\* C2: for a known table, find_rows_by_value with an empty conditions mapping returns
\* ok=true with the indices 0 .. num rows - 1 of every row.
C2_EmptyConditionsMatchAll ==
    (Done("find_rows_by_value") /\ KnownTable /\ call.conditions = <<>>)
    => /\ ReturnedOk
       /\ result.val["row indices"] = [i \in 1..NumRows(TheTable) |-> i - 1]

\* C3: every call of a table tool, whatever its input, returns a mapping with an `ok`
\* boolean and raises no exception.
C3_ErrorsCapturedInTool ==
    result # NoResult
    => /\ ~result.raised
       /\ "ok" \in DOMAIN result.val
       /\ result.val["ok"] \in BOOLEAN

\* C4: for a table UID that is not in the Table Store, each of the five tools, whatever
\* its other parameters, returns ok=false with the table-not-found error and echoes the
\* requested UID in `table_uid`.
C4_UnknownTableNotFound ==
    (result # NoResult /\ ~KnownTable)
    => /\ ReturnedFailure
       /\ result.val["error"] = "Table with uid: '" \o call.table_uid \o "' not found"
       /\ result.val["table_uid"] = call.table_uid

\* C4's case: get_cell on an unknown table, with a row index no table has.
C4_Witness ==
    /\ Done("get_cell") /\ ~KnownTable
    /\ call.row_index = MaxRows
    /\ result.val["table_uid"] = "T9"

\* C5: for a known table, get_column, get_cell and find_rows_by_value fail with
\* "Column '<name>' not found" whenever a referenced column is absent from the header;
\* for find_rows_by_value whenever any key of the conditions is absent, whatever the
\* number of rows and whether the other conditions match.
C5_AbsentColumnFails ==
    LET absent ==
            IF call.tool \in {"get_column", "get_cell"}
            THEN {call.column_name} \ HeaderNameSet(TheTable)
            ELSE IF call.tool = "find_rows_by_value"
            THEN ConditionKeys(call.conditions) \ HeaderNameSet(TheTable)
            ELSE {}
    IN  (result # NoResult /\ KnownTable /\ absent # {})
        => /\ ReturnedFailure
           /\ \E c \in absent : result.val["error"] = "Column '" \o c \o "' not found"

----------------------------------------------------------------------------
(* Properties of the orchestration graph, checked under Spec *)

Halted == active = {} /\ ran # <<>>
IsWorkerStep(e) == e.node \in Workers
WorkerSteps == SelectSeq(ran, IsWorkerStep)
Nodes == {"validator", "router"} \cup Workers

\* C6: started with an empty message list, the validator appends the single canned
\* message, sets next to the end sentinel and the graph halts: the validator is the
\* only node that ever executes.
C6_EmptyInputHaltsAtValidator ==
    (input = <<>> /\ ran # <<>>)
    => /\ ran = <<Executed("validator", END)>>
       /\ Len(messages) = 1
       /\ messages[1].type = "ai"
       /\ messages[1].content = "Please enter a question"
       /\ next = "end"
       /\ active = {}

C6_Witness == input = <<>> /\ Halted /\ Len(messages) = 1

\* C7: the node that runs immediately after a table_agent or analysis_agent step is the
\* router: a worker hands control to the router and to nothing else.
C7_WorkersReportToRouter ==
    \A i \in 1..Len(ran) :
        ran[i].node \in Workers
        => /\ ran[i].goto = "router"
           /\ IF i < Len(ran) THEN ran[i + 1].node = "router" ELSE active = {"router"}

C7_Witness ==
    \E i, j \in 1..Len(ran) :
        /\ i < Len(ran) /\ j < Len(ran)
        /\ ran[i].node = "table_agent"
        /\ ran[j].node = "analysis_agent"

\* C8: a router decision outside {table_agent, analysis_agent, FINISH} is rejected by
\* validation before the router sets `next` (it keeps the value it had: "router" from
\* the validator, or the last worker run) or transfers control; from the router the
\* graph moves only to table_agent, to analysis_agent or to the end.
C8_RouterDecisionValidated ==
    /\ active \subseteq Nodes \cup {START}
    /\ \A i \in 1..Len(ran) :
        ran[i].node = "router" => ran[i].goto \in Workers \cup {END, "raise"}
    /\ decision \notin Range(options) \cup {"none"}
        => /\ exception = "ValidationError"
           /\ ran[Len(ran)] = Executed("router", "raise")
           /\ active = {}
           /\ next = IF WorkerSteps = <<>> THEN "router"
                     ELSE WorkerSteps[Len(WorkerSteps)].node
    /\ (decision # "none" /\ exception = "none")
        => /\ decision \in Range(options)
           /\ next \in Workers \cup {END}

C8_Witness == decision = "search_agent" /\ exception = "ValidationError" /\ Len(ran) > 2

\* C9: at most one node is scheduled at a time; while a worker is scheduled `next`
\* names that worker; the step after a router decision naming a worker is that worker's;
\* the router appends no message and each worker execution appends exactly one.
C9_StrictTurnTaking ==
    /\ Cardinality(active) <= 1
    /\ \A w \in Workers : w \in active => next = w
    /\ \A i \in 1..Len(ran) :
        (ran[i].node = "router" /\ ran[i].goto \in Workers)
        => IF i < Len(ran) THEN ran[i + 1].node = ran[i].goto
           ELSE active = {ran[i].goto}
    /\ (input # <<>> /\ active # {START})
        => Len(messages) = Len(input) + Len(WorkerSteps)

C9_Witness ==
    /\ "analysis_agent" \in active
    /\ Len(WorkerSteps) = 2
    /\ WorkerSteps[1].node = "table_agent"

\* C10 as stated: started with a non-empty message list, at the halting state the last
\* message is authored by analysis_agent, which has run at least once.
C10_HaltsAfterAnalysisAnswer ==
    (input # <<>> /\ Halted /\ exception = "none")
    => /\ messages[Len(messages)].name = "analysis_agent"
       /\ \E i \in 1..Len(ran) : ran[i].node = "analysis_agent"

\* C10 amended: started with a non-empty message list, the graph halts (without an
\* exception) only on a router decision of FINISH, and the conversation is then the
\* input followed by one message per worker execution, in order and named by its
\* worker: the last message is by analysis_agent only if it was the last worker to run.
C10_HaltsOnFinishOnly ==
    (input # <<>> /\ Halted /\ exception = "none")
    => /\ decision = "FINISH"
       /\ ran[Len(ran)] = Executed("router", END)
       /\ next = END
       /\ Len(messages) = Len(input) + Len(WorkerSteps)
       /\ \A k \in 1..Len(input) : messages[k].content = input[k].content
       /\ \A k \in 1..Len(WorkerSteps) :
            /\ messages[Len(input) + k].name = WorkerSteps[k].node
            /\ messages[Len(input) + k].type = "human"

C10_Witness ==
    /\ input # <<>> /\ Halted /\ exception = "none"
    /\ Len(WorkerSteps) >= 2
    /\ messages[Len(messages)].name = "table_agent"

\* The router step that names a worker.
RouterChoosesWorker ==
    Router /\ decision' \in Workers /\ active' = {decision'}
        /\ UNCHANGED <<toolVars, storeVars, cacheVars>>

\* C11: on a non-empty input the graph ends only on a router step, by a decision of
\* FINISH (or aborts on a rejected decision); no count of rounds stops the loop: whenever
\* the router is scheduled it may still name a worker (below the model's own bound
\* MaxMsgs), and a scheduled worker always hands back to the router.
C11_NoIterationCap ==
    /\ (input # <<>> /\ Halted)
        => /\ ran[Len(ran)].node = "router"
           /\ ran[Len(ran)].goto \in {END, "raise"}
           /\ ran[Len(ran)].goto = END <=> decision = "FINISH"
           /\ ran[Len(ran)].goto = "raise" <=> exception = "ValidationError"
    /\ ("router" \in active /\ Len(messages) < MaxMsgs) => ENABLED RouterChoosesWorker
    /\ (active \cap Workers # {}) => ENABLED Next

C11_Witness ==
    /\ "router" \in active
    /\ Len(WorkerSteps) >= 3
    /\ decision # "FINISH"

IsPrefix(s, t) == Len(s) <= Len(t) /\ \A i \in 1..Len(s) : s[i] = t[i]

\* C12: the conversation is append-only: across every step of the graph the message
\* sequence before the step is a prefix of the message sequence after it.
C12_AppendOnly == [][IsPrefix(messages, messages')]_vars

C12_Witness ==
    /\ input # <<>>
    /\ Len(messages) >= Len(input) + 2
    /\ \A k \in 1..Len(input) : messages[k].content = input[k].content

\* C13: started with a non-empty message list, the validator step leaves the message
\* sequence as it is, sets next to "router" and schedules the router and nothing else.
C13_ValidatorPassesThrough ==
    [][("validator" \in active /\ messages # <<>>)
        => /\ messages' = messages
           /\ Len(messages) = Len(input)
           /\ \A k \in 1..Len(input) :
                messages[k] = [input[k] EXCEPT !.id = messages[k].id]
           /\ next' = "router"
           /\ active' = {"router"}
           /\ ran' = <<Executed("validator", "router")>>]_vars

C13_Witness ==
    /\ Len(input) = MaxInput
    /\ Len(ran) >= 2
    /\ ran[1].node = "validator"
    /\ ran[2].node = "router"

----------------------------------------------------------------------------
(* Further properties of the table tools, checked under SpecTools *)

\* The 0-based indices of the rows of the table that satisfy every condition.
MatchingRows(table, conditions) ==
    {i \in 0..(NumRows(table) - 1) : RowSatisfiesAll(table, i, conditions)}

StrictlyAscending(seq) == \A a, b \in 1..Len(seq) : a < b => seq[a] < seq[b]

\* C14: for a known table and conditions over header columns, if the combination is
\* present in exactly one row find_rows_by_value returns the one-element list of that
\* row's index, whatever the number of conditions; if it is present in no row, it
\* returns the empty list.
C14_OneMatchOrNone ==
    (Done("find_rows_by_value") /\ KnownTable
        /\ ConditionKeys(call.conditions) \subseteq HeaderNameSet(TheTable))
    => LET matching == MatchingRows(TheTable, call.conditions)
       IN  /\ Cardinality(matching) = 1
                => /\ ReturnedOk
                   /\ \E i \in matching : result.val["row indices"] = <<i>>
           /\ matching = {}
                => /\ ReturnedOk
                   /\ result.val["row indices"] = <<>>

\* C15: for a known table and a conditions mapping with exactly one entry, whose column
\* is in the header, find_rows_by_value returns ok=true with exactly the indices of the
\* rows whose cell in that column equals the value, ascending and each once.
C15_SingleCondition ==
    (Done("find_rows_by_value") /\ KnownTable /\ Len(call.conditions) = 1
        /\ ConditionKeys(call.conditions) \subseteq HeaderNameSet(TheTable))
    => /\ ReturnedOk
       /\ Range(result.val["row indices"]) = MatchingRows(TheTable, call.conditions)
       /\ StrictlyAscending(result.val["row indices"])

C15_Witness ==
    /\ Done("find_rows_by_value") /\ KnownTable
    /\ call.conditions = <<<<"City", "LA">>>>
    /\ header_names(TheTable) = <<"Name", "City">>
    /\ result.val["row indices"] = <<1>>

\* C16: for a known table and a column name of its header, get_column returns ok=true
\* with a 'cells' list as long as the 'num rows' of get_table_metadata, whose i-th
\* element is the value of that column in row i.
C16_ColumnHasEveryRow ==
    (Done("get_column") /\ KnownTable /\ call.column_name \in HeaderNameSet(TheTable))
    => /\ ReturnedOk
       /\ Len(result.val["cells"]) = get_table_metadata(call.table_uid).val["num rows"]
       /\ Len(result.val["cells"]) = NumRows(TheTable)
       /\ \A i \in 0..(NumRows(TheTable) - 1) :
            result.val["cells"][i + 1] = CellOf(TheTable, i, call.column_name)

C16_Witness ==
    /\ Done("get_column") /\ KnownTable
    /\ call.column_name = "City"
    /\ header_names(TheTable) = <<"Name", "City">>
    /\ result.val["cells"] = <<"NYC", "LA">>

PayloadFields(tool) ==
    CASE tool = "get_table_metadata" -> {"table title", "columns", "num rows"}
      [] tool = "get_column"         -> {"cells"}
      [] tool = "get_row_by_index"   -> {"row"}
      [] tool = "get_cell"           -> {"cell"}
      [] tool = "find_rows_by_value" -> {"row indices"}

AllPayloadFields ==
    {"table title", "columns", "num rows", "cells", "row", "cell", "row indices"}

\* The input parameter a returned failure is about, by its error text.
CausingParameter ==
    IF result.val["error"] = "Table with uid: '" \o call.table_uid \o "' not found"
    THEN "table_uid"
    ELSE IF call.tool = "find_rows_by_value" THEN "conditions" ELSE "column_name"

\* C17: a returned result is a tagged union: with ok true it carries exactly the
\* operation's payload fields and no `error`; with ok false it carries `error`, the
\* echoed `table_uid` and otherwise only echoed input parameters of the call, among
\* them the one that caused the failure, and no payload field.
C17_TaggedUnion ==
    (result # NoResult /\ ~result.raised)
    => LET v == result.val
       IN  IF v["ok"]
           THEN DOMAIN v = {"ok"} \cup PayloadFields(call.tool)
           ELSE /\ {"ok", "error", "table_uid"} \subseteq DOMAIN v
                /\ DOMAIN v \cap AllPayloadFields = {}
                /\ \A f \in DOMAIN v \ {"ok", "error"} :
                        f \in DOMAIN call \ {"tool"} /\ v[f] = call[f]
                /\ CausingParameter \in DOMAIN v
                /\ call.tool = "get_row_by_index" => "row_index" \in DOMAIN v

C17_Witness ==
    /\ Done("get_cell") /\ KnownTable
    /\ ReturnedFailure
    /\ result.val["column_name"] = "Country"
    /\ call.row_index = 0

\* C20: for a known table, a row index i with 0 <= i < num rows and a column name c of
\* the header, get_cell returns the value that is element i of get_column(uid, c) and
\* element k of get_row_by_index(uid, i), k the position of the first header entry
\* named c.
C20_CellReadsAgree ==
    (Done("get_cell") /\ KnownTable
        /\ 0 <= call.row_index /\ call.row_index < NumRows(TheTable)
        /\ call.column_name \in HeaderNameSet(TheTable))
    => LET column == get_column(call.table_uid, call.column_name)
           row    == get_row_by_index(call.table_uid, call.row_index)
           names  == header_names(TheTable)
           k      == CHOOSE p \in 1..Len(names) :
                        names[p] = call.column_name
                        /\ \A q \in 1..(p - 1) : names[q] # call.column_name
       IN  /\ ReturnedOk
           /\ ~column.raised /\ column.val["ok"]
           /\ ~row.raised /\ row.val["ok"]
           /\ result.val["cell"] = column.val["cells"][call.row_index + 1]
           /\ result.val["cell"] = row.val["row"][k]

C20_Witness ==
    /\ Done("get_cell") /\ KnownTable
    /\ header_names(TheTable) = <<"Name", "Name">>
    /\ call.row_index = 1
    /\ NumRows(TheTable) = 2
    /\ get_row_by_index(call.table_uid, 1).val["row"] = <<"LA", "NYC">>
    /\ result.val["cell"] = "LA"

----------------------------------------------------------------------------
(* Properties of sequences of tool calls, checked under SpecCalls *)

\* C18: no call of the five table tools or of the two retrieval tools changes
\* the Table Store mapping, the Passage Store mapping or a table's content, and
\* a call repeated with the same arguments returns what it returned the first
\* time, whatever calls were made in between.
C18_StoresReadOnly ==
    [][/\ tables' = tables
       /\ passages' = passages
       /\ (call' = first'.call => result' = first'.result)]_vars

\* The first call retrieved passages, other calls followed, and it is repeated.
C18_Witness ==
    /\ ncalls >= 3
    /\ first.between
    /\ call = first.call
    /\ call.tool = "retrieve_wiki_passages"
    /\ ~result.raised
    /\ Len(result.val["passages texts"]) = 2
    /\ result = first.result

----------------------------------------------------------------------------
(* Properties of Storage.__init__, checked under SpecStorage *)

AllFourPresent(d) == Artifacts \subseteq d

\* C19 as stated: with all four artifacts present they are loaded and nothing is
\* written; with any one missing the raw data is fetched and all four are written;
\* after a successful initialisation all four exist and every later one loads.
C19_RebuildAlwaysFetches ==
    /\ \A k \in 1..Len(inits) :
          LET r == inits[k]
          IN  /\ AllFourPresent(r.found) =>
                    r.path = "load" /\ r.written = {} /\ ~r.cloned
              /\ (~AllFourPresent(r.found) /\ r.ok) =>
                    r.path = "rebuild" /\ r.written = Artifacts /\ r.cloned
              /\ r.ok => \A j \in (k + 1)..Len(inits) : inits[j].path = "load"
    /\ (inits # <<>> /\ inits[Len(inits)].ok) => AllFourPresent(disk)

\* C19, amended: with all four artifacts present they are loaded and nothing is
\* fetched or written; with any one missing all four are rebuilt and written, and
\* the raw data is fetched exactly when ./data/hybrid_qa does not exist yet; after
\* a successful initialisation all four exist and every later one loads.
C19_LoadOrRebuild ==
    /\ \A k \in 1..Len(inits) :
          LET r == inits[k]
          IN  /\ AllFourPresent(r.found) =>
                    r.path = "load" /\ r.written = {} /\ ~r.cloned
              /\ (~AllFourPresent(r.found) /\ r.ok) =>
                    /\ r.path = "rebuild"
                    /\ r.written = Artifacts
                    /\ r.cloned <=> HybridQADir \notin r.found
              /\ r.ok => \A j \in (k + 1)..Len(inits) : inits[j].path = "load"
    /\ (inits # <<>> /\ inits[Len(inits)].ok) => AllFourPresent(disk)
    /\ STORAGE = "Storage" => inits # <<>> /\ inits[Len(inits)].ok

\* A first process found one artifact missing beside an existing raw checkout and
\* rebuilt without cloning; the next process loaded.
C19_Witness ==
    /\ Len(inits) = 2
    /\ inits[1].found = AllPaths \ {PassagesPkl}
    /\ inits[1].path = "rebuild" /\ inits[1].ok /\ ~inits[1].cloned
    /\ inits[2].path = "load" /\ inits[2].ok
    /\ STORAGE = "Storage"

----------------------------------------------------------------------------
(* Further properties of the orchestration graph, checked under Spec *)

\* The step just taken is an execution of `node`.
StepOf(node) ==
    /\ Len(ran') = Len(ran) + 1
    /\ ran'[Len(ran')].node = node

SystemPrompts == {TABLE_AGENT_SYSTEM_PROMPT, ANALYSIS_AGENT_SYSTEM_PROMPT}

\* C21: a router step adds no message and changes only `next`, to the chosen
\* worker or to the end sentinel on FINISH (a rejected decision changes nothing);
\* a worker step leaves `next` alone and appends exactly one message, named after
\* the worker and carrying the content of the last message of its inner run, so
\* neither the system prompt nor an intermediate message of the run enters the
\* shared conversation.
C21_OwnPartOnly ==
    [][/\ StepOf("router") =>
            /\ messages' = messages
            /\ IF exception' # exception
               THEN next' = next
               ELSE /\ decision' \in Range(options)
                    /\ next' = IF decision' = "FINISH" THEN END ELSE decision'
       /\ \A w \in Workers : StepOf(w) =>
            /\ next' = next
            /\ Len(messages') = Len(messages) + 1
            /\ IsPrefix(messages, messages')
            /\ Len(agent_result') >= Len(messages) + 2
            /\ agent_result'[1].type = "system"
            /\ LET m == messages'[Len(messages')]
               IN  /\ m.type = "human"
                   /\ m.name = w
                   /\ m.content = agent_result'[Len(agent_result')].content
            /\ \A i \in 1..Len(messages') :
                  /\ messages'[i].type # "system"
                  /\ messages'[i].content \notin SystemPrompts]_vars

\* table_agent has just reported after an inner run of two messages with different
\* contents, on a router decision that named it.
C21_Witness ==
    /\ ran # <<>>
    /\ ran[Len(ran)].node = "table_agent"
    /\ Len(ran) >= 2 /\ ran[Len(ran) - 1].node = "router"
    /\ next = "table_agent"
    /\ Len(agent_result) = Len(messages) + 2
    /\ agent_result[Len(agent_result) - 1].content # agent_result[Len(agent_result)].content
    /\ messages[Len(messages)].content = agent_result[Len(agent_result)].content
    /\ messages[Len(messages)].name = "table_agent"

----------------------------------------------------------------------------
(* Negative row indices, checked under SpecTools *)

\* The row index is negative and within the table: -n <= i < 0.
NegativeInRange ==
    /\ KnownTable
    /\ -NumRows(TheTable) <= call.row_index
    /\ call.row_index < 0

\* C22: for a known table with n rows and -n <= i < 0, get_row_by_index(uid, i)
\* returns ok=true with row i + n of the table, as get_row_by_index(uid, i + n)
\* does, and for a column name c of the header get_cell(uid, i, c) returns ok=true
\* with the cell of row i + n, as get_cell(uid, i + n, c) does.
C22_NegativeIndexWraps ==
    /\ (Done("get_row_by_index") /\ NegativeInRange) =>
          LET n     == NumRows(TheTable)
              wrap  == get_row_by_index(call.table_uid, call.row_index + n)
              row   == TheTable.data[call.row_index + n + 1]
          IN  /\ ReturnedOk
              /\ result.val["row"] = [c \in 1..Len(row) |-> row[c][1]]
              /\ ~wrap.raised /\ wrap.val["ok"]
              /\ result.val["row"] = wrap.val["row"]
    /\ (Done("get_cell") /\ NegativeInRange
            /\ call.column_name \in HeaderNameSet(TheTable)) =>
          LET n    == NumRows(TheTable)
              wrap == get_cell(call.table_uid, call.row_index + n, call.column_name)
          IN  /\ ReturnedOk
              /\ result.val["cell"] =
                    CellOf(TheTable, call.row_index + n, call.column_name)
              /\ ~wrap.raised /\ wrap.val["ok"]
              /\ result.val["cell"] = wrap.val["cell"]

\* get_cell with row index -2 on a table of two different rows read row 0.
C22_Witness ==
    /\ Done("get_cell") /\ KnownTable
    /\ NumRows(TheTable) = 2
    /\ call.row_index = -2
    /\ call.column_name = "City"
    /\ header_names(TheTable) = <<"Name", "City">>
    /\ TheTable.data[1][2][1] = "NYC"
    /\ TheTable.data[2][2][1] = "LA"
    /\ ReturnedOk
    /\ result.val["cell"] = "NYC"

============================================================================
